---- MODULE Spec2Model ----
(***************************************************************************)
(* Model of the css selector builder of src/task/08-objects-tasks.js:      *)
(* class Builder (lines 110-205) and the facade cssSelectorBuilder         *)
(* (lines 207-235).                                                        *)
(*                                                                         *)
(* Texts are sequences of one-character strings, so that concatenation,    *)
(* prefixes and lengths are those of the JavaScript strings.               *)
(* A method that can throw is an operator returning [this, err]: `this'    *)
(* is the receiver as the method leaves it (also when it throws) and       *)
(* `err' is "none", "dup" (this.duplicationError) or "order"               *)
(* (this.orderError).                                                      *)
(***************************************************************************)
EXTENDS Integers, Sequences, FiniteSets, TLC

VARIABLES heap, made, log, last, calls

vars == <<heap, made, log, last, calls>>

\* ------------------------------------------------------------------ bounds
MaxCalls == 3
MaxBuilders == 3

\* ------------------------------------------------------------------ inputs
Values == {<<"a">>, <<"b", "c">>}
Combinators == {<<"+">>, <<" ">>}
Kinds == {"element", "id", "class", "attr", "pseudoClass", "pseudoElement"}

\* ------------------------------------------------------- class Builder
\* constructor() with the order array shared with the Builder made before
Builder_new_sharedOrder ==
  [idUsed |-> FALSE, elementUsed |-> FALSE, pseudoElementUsed |-> FALSE,
   order |-> IF heap = <<>> THEN <<>> ELSE heap[Len(heap)].order,
   result |-> <<>>]

\* constructor(): the fields of a new Builder
Builder_new ==
  [idUsed |-> FALSE, elementUsed |-> FALSE, pseudoElementUsed |-> FALSE,
   order |-> <<>>, result |-> <<>>]

RECURSIVE Insert(_, _)
\* place x in the ascending sequence s, after the elements equal to it
Insert(x, s) ==
  IF s = <<>> THEN <<x>>
  ELSE IF x < Head(s) THEN <<x>> \o s
       ELSE <<Head(s)>> \o Insert(x, Tail(s))

RECURSIVE SortAsc(_)
\* [...order].sort((a, b) => a - b): the ascending stable sort of a copy
SortAsc(s) ==
  IF s = <<>> THEN <<>>
  ELSE Insert(s[Len(s)], SortAsc(SubSeq(s, 1, Len(s) - 1)))

\* validateOrder() with the comparison made between neighbours, equal ranks
\* rejected
validateOrder_strict(order) ==
  \A i \in 1..(Len(order) - 1) : order[i] < order[i + 1]

\* validateOrder() comparing against a copy that was not sorted
validateOrder_unsorted(order) ==
  LET sortedOrder == order
  IN  \A i \in 1..Len(order) : order[i] = sortedOrder[i]

\* validateOrder(): TRUE when it returns, FALSE when it throws orderError
validateOrder(order) ==
  LET sortedOrder == SortAsc(order)
  IN  \A i \in 1..Len(order) : order[i] = sortedOrder[i]

\* element() without the elementUsed check
element_noDuplicateCheck(this, value) ==
  LET t == [this EXCEPT !.elementUsed = TRUE, !.order = Append(@, 0)]
  IN  IF ~validateOrder(t.order) THEN [this |-> t, err |-> "order"]
      ELSE [this |-> [t EXCEPT !.result = @ \o value], err |-> "none"]

\* element() validating the order before it looks at elementUsed
element_orderFirst(this, value) ==
  LET t == [this EXCEPT !.order = Append(@, 0)]
  IN  IF ~validateOrder(t.order) THEN [this |-> t, err |-> "order"]
      ELSE IF this.elementUsed THEN [this |-> t, err |-> "dup"]
      ELSE [this |-> [t EXCEPT !.elementUsed = TRUE, !.result = @ \o value],
            err |-> "none"]

\* element() restoring the flag and the order when validateOrder() throws
element_rollback(this, value) ==
  IF this.elementUsed THEN [this |-> this, err |-> "dup"]
  ELSE LET t == [this EXCEPT !.elementUsed = TRUE, !.order = Append(@, 0)]
       IN  IF ~validateOrder(t.order) THEN [this |-> this, err |-> "order"]
           ELSE [this |-> [t EXCEPT !.result = @ \o value], err |-> "none"]

element(this, value) ==
  IF this.elementUsed THEN [this |-> this, err |-> "dup"]
  ELSE LET t == [this EXCEPT !.elementUsed = TRUE, !.order = Append(@, 0)]
       IN  IF ~validateOrder(t.order) THEN [this |-> t, err |-> "order"]
           ELSE [this |-> [t EXCEPT !.result = @ \o value], err |-> "none"]

id(this, value) ==
  IF this.idUsed THEN [this |-> this, err |-> "dup"]
  ELSE LET t == [this EXCEPT !.idUsed = TRUE, !.order = Append(@, 1)]
       IN  IF ~validateOrder(t.order) THEN [this |-> t, err |-> "order"]
           ELSE [this |-> [t EXCEPT !.result = @ \o <<"#">> \o value],
                 err |-> "none"]

\* class() appending to result before validateOrder()
class_appendFirst(this, value) ==
  LET t == [this EXCEPT !.order = Append(@, 2),
                        !.result = @ \o <<".">> \o value]
  IN  IF ~validateOrder(t.order) THEN [this |-> t, err |-> "order"]
      ELSE [this |-> t, err |-> "none"]

class(this, value) ==
  LET t == [this EXCEPT !.order = Append(@, 2)]
  IN  IF ~validateOrder(t.order) THEN [this |-> t, err |-> "order"]
      ELSE [this |-> [t EXCEPT !.result = @ \o <<".">> \o value],
            err |-> "none"]

attr(this, value) ==
  LET t == [this EXCEPT !.order = Append(@, 3)]
  IN  IF ~validateOrder(t.order) THEN [this |-> t, err |-> "order"]
      ELSE [this |-> [t EXCEPT !.result = @ \o <<"[">> \o value \o <<"]">>],
            err |-> "none"]

pseudoClass(this, value) ==
  LET t == [this EXCEPT !.order = Append(@, 4)]
  IN  IF ~validateOrder(t.order) THEN [this |-> t, err |-> "order"]
      ELSE [this |-> [t EXCEPT !.result = @ \o <<":">> \o value],
            err |-> "none"]

\* pseudoElement() pushing its rank before it looks at pseudoElementUsed
pseudoElement_pushFirst(this, value) ==
  LET p == [this EXCEPT !.order = Append(@, 5)]
  IN  IF this.pseudoElementUsed THEN [this |-> p, err |-> "dup"]
      ELSE LET t == [p EXCEPT !.pseudoElementUsed = TRUE]
           IN  IF ~validateOrder(t.order) THEN [this |-> t, err |-> "order"]
               ELSE [this |-> [t EXCEPT !.result = @ \o <<":", ":">> \o value],
                     err |-> "none"]

pseudoElement(this, value) ==
  IF this.pseudoElementUsed THEN [this |-> this, err |-> "dup"]
  ELSE LET t == [this EXCEPT !.pseudoElementUsed = TRUE,
                             !.order = Append(@, 5)]
       IN  IF ~validateOrder(t.order) THEN [this |-> t, err |-> "order"]
           ELSE [this |-> [t EXCEPT !.result = @ \o <<":", ":">> \o value],
                 err |-> "none"]

stringify(this) == this.result

\* combine() without the spaces around the combinator
combine_noSpaces(this, selector1, combinator, selector2) ==
  [this EXCEPT !.result = @ \o selector1.result \o combinator
                             \o selector2.result]

\* combine() that also takes over the order and the flags of its operands
combine_mergeOrder(this, selector1, combinator, selector2) ==
  [this EXCEPT !.result = @ \o selector1.result \o <<" ">> \o combinator
                             \o <<" ">> \o selector2.result,
               !.order = @ \o selector1.order \o selector2.order,
               !.elementUsed =
                  @ \/ selector1.elementUsed \/ selector2.elementUsed,
               !.idUsed = @ \/ selector1.idUsed \/ selector2.idUsed,
               !.pseudoElementUsed =
                  @ \/ selector1.pseudoElementUsed
                    \/ selector2.pseudoElementUsed]

\* combine() that puts its second operand in parentheses
combine_grouped(this, selector1, combinator, selector2) ==
  [this EXCEPT !.result = @ \o selector1.result \o <<" ">> \o combinator
                             \o <<" ", "(">> \o selector2.result \o <<")">>]

\* combine(selector1, combinator, selector2): the receiver afterwards
combine(this, selector1, combinator, selector2) ==
  [this EXCEPT !.result = @ \o selector1.result \o <<" ">> \o combinator
                             \o <<" ">> \o selector2.result]

\* the part-append method named kind, applied to the receiver
Invoke(kind, this, value) ==
  CASE kind = "element"       -> element(this, value)
    [] kind = "id"            -> id(this, value)
    [] kind = "class"         -> class(this, value)
    [] kind = "attr"          -> attr(this, value)
    [] kind = "pseudoClass"   -> pseudoClass(this, value)
    [] kind = "pseudoElement" -> pseudoElement(this, value)

\* ------------------------------------------------------------------ state
\* heap : the Builder objects the caller holds a handle to, by handle
\* made : per handle, the facade entry point that constructed the object and
\*        the text it held before any part was appended to it
\* log  : per handle, the part-append calls made on it and their outcomes
\* last : the call made by the latest step and what the caller saw of it
\* calls: the number of calls made so far
Handles == 1..Len(heap)

NoCall == [op |-> "none", this |-> 0, value |-> <<>>, err |-> "none",
           ret |-> <<>>, s1 |-> 0, s2 |-> 0]

Init ==
  /\ heap = <<>>
  /\ made = <<>>
  /\ log = <<>>
  /\ last = NoCall
  /\ calls = 0

\* b.<kind>(value) on a handle the caller already holds (a chained call, or
\* a call whose error the caller catches)
Call(kind, b, value) ==
  LET r == Invoke(kind, heap[b], value)
  IN  /\ calls < MaxCalls
      /\ heap' = [heap EXCEPT ![b] = r.this]
      /\ log' = [log EXCEPT ![b] = Append(@, [kind |-> kind, value |-> value,
                                              err |-> r.err])]
      /\ last' = [op |-> kind, this |-> b, value |-> value, err |-> r.err,
                  ret |-> <<>>, s1 |-> 0, s2 |-> 0]
      /\ calls' = calls + 1
      /\ UNCHANGED made

CallElement == \E b \in Handles, v \in Values : Call("element", b, v)
CallId == \E b \in Handles, v \in Values : Call("id", b, v)
CallClass == \E b \in Handles, v \in Values : Call("class", b, v)
CallAttr == \E b \in Handles, v \in Values : Call("attr", b, v)
CallPseudoClass == \E b \in Handles, v \in Values : Call("pseudoClass", b, v)
CallPseudoElement ==
  \E b \in Handles, v \in Values : Call("pseudoElement", b, v)

\* cssSelectorBuilder.<kind>(value): new Builder().<kind>(value); the caller
\* gets the handle only when the method returns
Facade(kind, value) ==
  LET r == Invoke(kind, Builder_new, value)
      b == Len(heap) + 1
  IN  /\ calls < MaxCalls
      /\ Len(heap) < MaxBuilders
      /\ IF r.err = "none"
         THEN /\ heap' = Append(heap, r.this)
              /\ made' = Append(made, [by |-> "part",
                                       text |-> Builder_new.result])
              /\ log' = Append(log, <<[kind |-> kind, value |-> value,
                                       err |-> r.err]>>)
              /\ last' = [op |-> kind, this |-> b, value |-> value,
                          err |-> r.err, ret |-> <<>>, s1 |-> 0, s2 |-> 0]
         ELSE /\ UNCHANGED <<heap, made, log>>
              /\ last' = [op |-> kind, this |-> 0, value |-> value,
                          err |-> r.err, ret |-> <<>>, s1 |-> 0, s2 |-> 0]
      /\ calls' = calls + 1

cssSelectorBuilder_element == \E v \in Values : Facade("element", v)
cssSelectorBuilder_id == \E v \in Values : Facade("id", v)
cssSelectorBuilder_class == \E v \in Values : Facade("class", v)
cssSelectorBuilder_attr == \E v \in Values : Facade("attr", v)
cssSelectorBuilder_pseudoClass == \E v \in Values : Facade("pseudoClass", v)
cssSelectorBuilder_pseudoElement ==
  \E v \in Values : Facade("pseudoElement", v)

\* combine of the facade with selector1 as the receiver instead of a new
\* Builder
cssSelectorBuilder_combine_onOperand ==
  \E s1 \in Handles, s2 \in Handles, c \in Combinators :
    /\ calls < MaxCalls
    /\ heap' = [heap EXCEPT ![s1] = combine(heap[s1], heap[s1], c, heap[s2])]
    /\ last' = [op |-> "combine", this |-> s1, value |-> c,
                err |-> "none", ret |-> <<>>, s1 |-> s1, s2 |-> s2]
    /\ calls' = calls + 1
    /\ UNCHANGED <<made, log>>

\* cssSelectorBuilder.combine(selector1, combinator, selector2)
cssSelectorBuilder_combine ==
  \E s1 \in Handles, s2 \in Handles, c \in Combinators :
    /\ calls < MaxCalls
    /\ Len(heap) < MaxBuilders
    /\ heap' = Append(heap, combine(Builder_new, heap[s1], c, heap[s2]))
    /\ made' = Append(made, [by |-> "combine",
                             text |-> heap'[Len(heap) + 1].result])
    /\ log' = Append(log, <<>>)
    /\ last' = [op |-> "combine", this |-> Len(heap) + 1, value |-> c,
                err |-> "none", ret |-> <<>>, s1 |-> s1, s2 |-> s2]
    /\ calls' = calls + 1

\* stringify() handing out result and clearing it
Stringify_flush ==
  \E b \in Handles :
    /\ calls < MaxCalls
    /\ last' = [op |-> "stringify", this |-> b, value |-> <<>>,
                err |-> "none", ret |-> stringify(heap[b]),
                s1 |-> 0, s2 |-> 0]
    /\ heap' = [heap EXCEPT ![b].result = <<>>]
    /\ calls' = calls + 1
    /\ UNCHANGED <<made, log>>

\* b.stringify()
Stringify ==
  \E b \in Handles :
    /\ calls < MaxCalls
    /\ last' = [op |-> "stringify", this |-> b, value |-> <<>>,
                err |-> "none", ret |-> stringify(heap[b]),
                s1 |-> 0, s2 |-> 0]
    /\ calls' = calls + 1
    /\ UNCHANGED <<heap, made, log>>

Next ==
  \/ CallElement
  \/ CallId
  \/ CallClass
  \/ CallAttr
  \/ CallPseudoClass
  \/ CallPseudoElement
  \/ cssSelectorBuilder_element
  \/ cssSelectorBuilder_id
  \/ cssSelectorBuilder_class
  \/ cssSelectorBuilder_attr
  \/ cssSelectorBuilder_pseudoClass
  \/ cssSelectorBuilder_pseudoElement
  \/ cssSelectorBuilder_combine
  \/ Stringify

Spec == Init /\ [][Next]_vars

TypeOK ==
  /\ Len(log) = Len(heap)
  /\ Len(made) = Len(heap)
  /\ calls \in 0..MaxCalls

\* ------------------------------------------------- vocabulary of the claims
\* category ranks: element=0, id=1, class=2, attribute=3, pseudo-class=4,
\* pseudo-element=5
Rank(kind) ==
  CASE kind = "element"       -> 0
    [] kind = "id"            -> 1
    [] kind = "class"         -> 2
    [] kind = "attr"          -> 3
    [] kind = "pseudoClass"   -> 4
    [] kind = "pseudoElement" -> 5

Singletons == {"element", "id", "pseudoElement"}

\* the text one accepted part contributes
Fragment(kind, value) ==
  CASE kind = "element"       -> value
    [] kind = "id"            -> <<"#">> \o value
    [] kind = "class"         -> <<".">> \o value
    [] kind = "attr"          -> <<"[">> \o value \o <<"]">>
    [] kind = "pseudoClass"   -> <<":">> \o value
    [] kind = "pseudoElement" -> <<":", ":">> \o value

RECURSIVE Rendered(_)
\* the fragments of the accepted calls of a call log, concatenated in order
Rendered(l) ==
  IF l = <<>> THEN <<>>
  ELSE (IF Head(l).err = "none" THEN Fragment(Head(l).kind, Head(l).value)
        ELSE <<>>) \o Rendered(Tail(l))

IsPrefix(s, t) == Len(s) <= Len(t) /\ SubSeq(t, 1, Len(s)) = s

NonDecreasing(s) == \A i \in 1..(Len(s) - 1) : s[i] <= s[i + 1]

\* the calls on b before its i-th call
Earlier(b, i) == 1..(i - 1)

\* some part of the given kind was accepted on b before its i-th call
CommittedBefore(b, i, kind) ==
  \E j \in Earlier(b, i) : log[b][j].kind = kind /\ log[b][j].err = "none"

\* the given kind was called on b before its i-th call
CalledBefore(b, i, kind) ==
  \E j \in Earlier(b, i) : log[b][j].kind = kind

\* some rank accepted on b before its i-th call is greater than r
GreaterCommittedBefore(b, i, r) ==
  \E j \in Earlier(b, i) :
    log[b][j].err = "none" /\ Rank(log[b][j].kind) > r

\* the step just taken was a part-append on a handle the caller held
PartStep == last'.op \in Kinds /\ last'.this \in Handles

\* ------------------------------------------------------------------ claims

\* C1: when a part-append raises the order error, the builder's order,
\* result and its three flags are what they were before the call.
C1_OrderErrorLeavesBuilderUnchanged ==
  [][(PartStep /\ last'.err = "order")
       => heap'[last'.this] = heap[last'.this]]_vars

\* C2: in every reachable state, also after errors the caller caught, the
\* order sequence of every builder is non-decreasing.
C2_RankSequenceSorted ==
  \A b \in Handles : NonDecreasing(heap[b].order)

\* C3: a builder on which the calls so far have non-decreasing ranks, with
\* element, id and pseudoElement called at most once each, has raised no
\* error, however often class, attr and pseudoClass were repeated.
C3_ValidOrderingsNeverRaise ==
  \A b \in Handles :
    ( /\ NonDecreasing([i \in 1..Len(log[b]) |-> Rank(log[b][i].kind)])
      /\ \A i \in 1..Len(log[b]) :
           log[b][i].kind \in Singletons
             => ~CalledBefore(b, i, log[b][i].kind) )
    => \A i \in 1..Len(log[b]) : log[b][i].err = "none"

C3_Witness ==
  \E b \in Handles :
    /\ Len(log[b]) >= 3
    /\ \A i \in 1..Len(log[b]) : log[b][i].err = "none"
    /\ \E i \in 1..(Len(log[b]) - 1) : log[b][i].kind = log[b][i + 1].kind
    /\ \E i \in 1..(Len(log[b]) - 1) :
         Rank(log[b][i].kind) < Rank(log[b][i + 1].kind)

\* C4: a part-append of rank R made when some rank accepted earlier on the
\* builder is greater than R, and that is not a repeated call of element, id
\* or pseudoElement, raises the order error.
C4_LowerRankRaisesOrderError ==
  \A b \in Handles : \A i \in 1..Len(log[b]) :
    ( /\ GreaterCommittedBefore(b, i, Rank(log[b][i].kind))
      /\ ~(log[b][i].kind \in Singletons
           /\ CalledBefore(b, i, log[b][i].kind)) )
    => log[b][i].err = "order"

C4_Witness ==
  \E b \in Handles :
    /\ Len(log[b]) = 2
    /\ log[b][1].kind = "id" /\ log[b][1].err = "none"
    /\ log[b][2].kind = "element" /\ log[b][2].err = "order"

\* C5: a second call of element on a builder raises the duplicate error
\* whatever calls came between, likewise for id and pseudoElement; class,
\* attr and pseudoClass never raise the duplicate error.
C5_SecondSingletonCallIsDuplicate ==
  \A b \in Handles : \A i \in 1..Len(log[b]) :
    /\ (log[b][i].kind \in Singletons /\ CalledBefore(b, i, log[b][i].kind))
         => log[b][i].err = "dup"
    /\ log[b][i].kind \notin Singletons => log[b][i].err # "dup"

C5_Witness ==
  \E b \in Handles :
    /\ Len(log[b]) = 3
    /\ log[b][1].kind \in Singletons
    /\ log[b][2].kind \notin Singletons
    /\ log[b][3].kind = log[b][1].kind
    /\ log[b][3].err = "dup"

\* C6: a call that repeats an accepted element, id or pseudoElement and whose
\* rank is also lower than a rank already accepted raises the duplicate
\* error, not the order error.
C6_DuplicateTakesPrecedence ==
  \A b \in Handles : \A i \in 1..Len(log[b]) :
    ( /\ log[b][i].kind \in Singletons
      /\ CommittedBefore(b, i, log[b][i].kind)
      /\ GreaterCommittedBefore(b, i, Rank(log[b][i].kind)) )
    => log[b][i].err = "dup"

C6_Witness ==
  \E b \in Handles :
    /\ Len(log[b]) = 3
    /\ log[b][1].kind = "element" /\ log[b][1].err = "none"
    /\ log[b][2].kind = "class" /\ log[b][2].err = "none"
    /\ log[b][3].kind = "element" /\ log[b][3].err = "dup"

\* C7: when a part-append raises the duplicate error, the builder's order,
\* result and flags are unchanged, so every append has the outcome it would
\* have had before the failed call.
C7_DuplicateErrorLeavesBuilderUnchanged ==
  [][(PartStep /\ last'.err = "dup")
       => /\ heap'[last'.this] = heap[last'.this]
          /\ \A k \in Kinds, v \in Values :
               Invoke(k, heap'[last'.this], v)
                 = Invoke(k, heap[last'.this], v)]_vars

C7_Witness ==
  /\ last.op \in Singletons
  /\ last.err = "dup"
  /\ last.this \in Handles

\* C8: each of the flags elementUsed, idUsed, pseudoElementUsed is true
\* exactly when a part of its category has been accepted on the builder, and
\* no category with a flag is accepted twice.
C8_FlagIffCommitted ==
  \A b \in Handles :
    LET n == Len(log[b]) + 1
    IN  /\ heap[b].elementUsed <=> CommittedBefore(b, n, "element")
        /\ heap[b].idUsed <=> CommittedBefore(b, n, "id")
        /\ heap[b].pseudoElementUsed <=> CommittedBefore(b, n, "pseudoElement")
        /\ \A k \in Singletons :
             Cardinality({i \in 1..Len(log[b]) :
                            log[b][i].kind = k /\ log[b][i].err = "none"}) <= 1

\* C9: the result of a builder is the text it was constructed with followed
\* by the fragments of exactly its accepted parts in the order of acceptance
\* (the constructed text is empty for a builder made by a part entry point);
\* a call that raised contributes nothing, and every step leaves the old
\* text a prefix of the new one.
C9_ResultIsConcatenationOfAccepted ==
  /\ [](\A b \in Handles :
          /\ heap[b].result = made[b].text \o Rendered(log[b])
          /\ made[b].by = "part" => made[b].text = <<>>)
  /\ [][\A b \in Handles :
          /\ IsPrefix(heap[b].result, heap'[b].result)
          /\ (PartStep /\ last'.this = b /\ last'.err = "none")
               => heap'[b].result
                    = heap[b].result \o Fragment(last'.op, last'.value)
          /\ (PartStep /\ last'.this = b /\ last'.err # "none")
               => heap'[b].result = heap[b].result]_vars

C9_Witness ==
  \E b \in Handles :
    /\ made[b].by = "part"
    /\ Len(log[b]) = 3
    /\ log[b][1].err = "none"
    /\ log[b][2].err # "none"
    /\ log[b][3].err = "none"
    /\ log[b][1].value # log[b][3].value

\* C10: the builder returned by the facade's combine renders as the first
\* operand's text, one space, the combinator, one space, the second operand's
\* text; no combinator raises, and the operands may themselves be results of
\* combine.
C10_CombineRendersOperandsInOrder ==
  last.op = "combine"
    => /\ last.err = "none"
       /\ stringify(heap[last.this])
            = stringify(heap[last.s1]) \o <<" ">> \o last.value \o <<" ">>
                \o stringify(heap[last.s2])

C10_Witness ==
  /\ last.op = "combine"
  /\ made[last.s1].by = "combine"
  /\ made[last.s2].by = "part"
  /\ last.value = <<" ">>

\* C11: combine of the facade only reads its operands: every builder that
\* existed before the call is unchanged by it, the builder returned is a new
\* one, and a later part-append on another builder leaves the text of a
\* combined builder as it was.
C11_CombineOnlyReadsOperands ==
  [][/\ last'.op = "combine"
          => /\ last'.this \notin Handles
             /\ last'.this \in 1..Len(heap')
             /\ last'.this # last'.s1 /\ last'.this # last'.s2
             /\ \A b \in Handles : heap'[b] = heap[b]
     /\ PartStep
          => \A c \in Handles :
               (made[c].by = "combine" /\ c # last'.this)
                 => heap'[c].result = heap[c].result]_vars

C11_Witness ==
  /\ Len(heap) = 2
  /\ made[1].by = "part"
  /\ made[2].by = "combine"
  /\ last.op \in Kinds /\ last.this = 1 /\ last.err = "none"
  /\ heap[2].result = made[2].text

\* C12: stringify returns result and changes no builder: a call right after
\* another on the same builder returns the same text, and every append has
\* the outcome it would have had without the call.
C12_StringifyReadsOnly ==
  [][last'.op = "stringify"
       => /\ last'.ret = heap[last'.this].result
          /\ heap' = heap
          /\ (last.op = "stringify" /\ last.this = last'.this)
               => last'.ret = last.ret
          /\ \A k \in Kinds, v \in Values :
               Invoke(k, heap'[last'.this], v)
                 = Invoke(k, heap[last'.this], v)]_vars

C12_Witness ==
  /\ last.op = "stringify"
  /\ last.ret # <<>>
  /\ last.ret = heap[last.this].result
  /\ Len(log[last.this]) >= 2

\* C13: a call through the facade never raises and returns a new builder
\* that holds exactly what the call put into an empty one (for combine: empty
\* order and no flag), and no step changes a builder other than the one it
\* was called on, whatever happened on the other builders before.
C13_FacadeStartsFreshAndIsolated ==
  [][/\ (last'.op \in Kinds /\ last'.this \notin Handles)
          => /\ last'.err = "none"
             /\ last'.this = Len(heap) + 1
             /\ Len(heap') = Len(heap) + 1
             /\ heap'[last'.this]
                  = [elementUsed |-> last'.op = "element",
                     idUsed |-> last'.op = "id",
                     pseudoElementUsed |-> last'.op = "pseudoElement",
                     order |-> <<Rank(last'.op)>>,
                     result |-> Fragment(last'.op, last'.value)]
     /\ (last'.op = "combine" /\ last'.this \notin Handles)
          => /\ last'.this = Len(heap) + 1
             /\ Len(heap') = Len(heap) + 1
             /\ heap'[last'.this].order = <<>>
             /\ ~heap'[last'.this].elementUsed
             /\ ~heap'[last'.this].idUsed
             /\ ~heap'[last'.this].pseudoElementUsed
     /\ \A b \in Handles : b # last'.this => heap'[b] = heap[b]]_vars

C13_Witness ==
  /\ Len(heap) = 2
  /\ log[1][1].kind = "id"
  /\ Len(log[1]) = 2 /\ log[1][2].kind = "element" /\ log[1][2].err = "order"
  /\ last.this = 2 /\ last.op = "element" /\ last.err = "none"
  /\ heap[2].order = <<0>>

\* the check that looks only at the new rank and the rank before it
lastRankAccepts(order) ==
  Len(order) < 2 \/ order[Len(order) - 1] <= order[Len(order)]

\* the flag that guards the given kind, FALSE for the kinds without one
UsedFlag(this, kind) ==
  CASE kind = "element"       -> this.elementUsed
    [] kind = "id"            -> this.idUsed
    [] kind = "pseudoElement" -> this.pseudoElementUsed
    [] OTHER                  -> FALSE

\* a part-append of a builder that differs from Builder only in that its
\* order check is lastRankAccepts
MonotonicInvoke(kind, this, value) ==
  IF UsedFlag(this, kind) THEN [this |-> this, err |-> "dup"]
  ELSE LET t == [this EXCEPT
                   !.elementUsed = @ \/ kind = "element",
                   !.idUsed = @ \/ kind = "id",
                   !.pseudoElementUsed = @ \/ kind = "pseudoElement",
                   !.order = Append(@, Rank(kind))]
       IN  IF ~lastRankAccepts(t.order) THEN [this |-> t, err |-> "order"]
           ELSE [this |-> [t EXCEPT !.result = @ \o Fragment(kind, value)],
                 err |-> "none"]

RECURSIVE MonotonicReplay(_, _)
\* the calls of the log l made on the last-rank builder st: the builder
\* afterwards and the outcome of each call
MonotonicReplay(l, st) ==
  IF l = <<>> THEN [this |-> st, errs |-> <<>>]
  ELSE LET r == MonotonicInvoke(Head(l).kind, st, Head(l).value)
           rest == MonotonicReplay(Tail(l), r.this)
       IN  [this |-> rest.this, errs |-> <<r.err>> \o rest.errs]

\* C14: a builder checking the order by re-sort and one checking only the
\* new rank against the last rank, given the same calls (calls after a
\* caught error included), accept and reject the same calls and hold the
\* same state.
C14_ResortEquivalentToLastRank ==
  \A b \in Handles :
    LET r == MonotonicReplay(log[b],
                             [Builder_new EXCEPT !.result = made[b].text])
    IN  /\ r.errs = [i \in 1..Len(log[b]) |-> log[b][i].err]
        /\ r.this = heap[b]

\* C15: a builder returned by combine has an empty order and no flag set
\* whatever its operands hold, so the first part appended to it is accepted,
\* of whatever category, and its fragment follows the combined text.
C15_CombinedBuilderStartsUnordered ==
  \A b \in Handles :
    made[b].by = "combine"
      => /\ log[b] = <<>>
              => /\ heap[b].order = <<>>
                 /\ ~heap[b].elementUsed
                 /\ ~heap[b].idUsed
                 /\ ~heap[b].pseudoElementUsed
                 /\ heap[b].result = made[b].text
         /\ log[b] # <<>> => log[b][1].err = "none"
         /\ Len(log[b]) = 1
              => /\ heap[b].order = <<Rank(log[b][1].kind)>>
                 /\ heap[b].result
                      = made[b].text
                          \o Fragment(log[b][1].kind, log[b][1].value)

C15_Witness ==
  /\ Len(heap) = 2
  /\ log[1][1].kind = "pseudoElement"
  /\ heap[1].pseudoElementUsed
  /\ made[2].by = "combine"
  /\ Len(log[2]) = 1
  /\ log[2][1].kind = "element" /\ log[2][1].err = "none"

\* C16: once a part-append on a builder has raised the order error, no later
\* part-append on that builder is accepted (each raises the order or the
\* duplicate error) and the result of the builder no longer changes.
C16_OrderErrorIsPermanent ==
  /\ [](\A b \in Handles : \A i \in 1..Len(log[b]) :
          log[b][i].err = "order"
            => \A j \in (i + 1)..Len(log[b]) : log[b][j].err \in {"order", "dup"})
  /\ [][\A b \in Handles :
          (\E i \in 1..Len(log[b]) : log[b][i].err = "order")
            => heap'[b].result = heap[b].result]_vars

C16_Witness ==
  \E b \in Handles :
    /\ Len(log[b]) = 3
    /\ log[b][1].kind = "id" /\ log[b][1].err = "none"
    /\ log[b][2].kind = "element" /\ log[b][2].err = "order"
    /\ log[b][3].kind = "class" /\ log[b][3].err = "order"
    /\ heap[b].result = Fragment("id", log[b][1].value)

\* combine of the facade as a function of its arguments: the builder returned
FacadeCombine(selector1, combinator, selector2) ==
  combine(Builder_new, selector1, combinator, selector2)

\* C17: for all built selectors a, b, c and combinators x, y the text of
\* combine(combine(a, x, b), y, c) is the text of
\* combine(a, x, combine(b, y, c)).
C17_NestedCombineTextIsAssociative ==
  \A a \in Handles, b \in Handles, c \in Handles :
    \A x \in Combinators, y \in Combinators :
      stringify(FacadeCombine(FacadeCombine(heap[a], x, heap[b]), y, heap[c]))
        = stringify(FacadeCombine(heap[a], x,
                                  FacadeCombine(heap[b], y, heap[c])))

C17_Witness ==
  /\ Len(heap) = 3
  /\ made[3].by = "combine"
  /\ last.op = "combine" /\ last.s1 # last.s2
  /\ heap[1].result # heap[2].result
  /\ stringify(FacadeCombine(FacadeCombine(heap[1], <<"+">>, heap[2]),
                             <<" ">>, heap[3]))
       = heap[1].result \o <<" ", "+", " ">> \o heap[2].result
           \o <<" ", " ", " ">> \o heap[3].result
====
